---- MODULE Spec2Model ----
(***************************************************************************)
(* Model of the Sentinel wire protocol (src/shared/protocol.py).           *)
(*                                                                         *)
(* Byte strings and text are sequences of byte values 0..255.  All text in *)
(* the model is ASCII, so encoding to UTF-8 keeps the codes; decoding      *)
(* fails on the one non-ASCII byte the model puts on the wire (255, which  *)
(* no UTF-8 sequence contains).                                            *)
(* Python values are tagged records: None, str, int, bool, float.  A float *)
(* is held as an integer number of ten-thousandths (160294 is 16.0294).    *)
(* An exception is a record whose tag is the exception class.              *)
(***************************************************************************)
EXTENDS Integers, Sequences, FiniteSets, TLC

(***************************************************************************)
(* Bounds of the model.                                                    *)
(***************************************************************************)
\* longest requested_fields list a Request is built with
MaxFields == 2
\* a delivery may lose up to this many trailing bytes of a frame
MaxDrop == 2

(***************************************************************************)
(* Generic helpers.                                                        *)
(***************************************************************************)
Min(a, b) == IF a < b THEN a ELSE b

\* python slice s[a:b] for 0 <= a, 0 <= b (0-based, end exclusive)
Slice(s, a, b) == SubSeq(s, a + 1, Min(b, Len(s)))

RECURSIVE Repeat(_, _)
Repeat(x, n) == IF n <= 0 THEN <<>> ELSE <<x>> \o Repeat(x, n - 1)

\* str(n) for n >= 0
RECURSIVE DecStr(_)
DecStr(n) == IF n < 10 THEN <<48 + n>> ELSE DecStr(n \div 10) \o <<48 + (n % 10)>>

\* n as exactly w decimal digits (n < 10^w)
RECURSIVE ZeroPad(_, _)
ZeroPad(n, w) == IF w = 0 THEN <<>> ELSE ZeroPad(n \div 10, w - 1) \o <<48 + (n % 10)>>

IsDigit(c) == c >= 48 /\ c <= 57

AllDigits(s) == \A i \in 1..Len(s) : IsDigit(s[i])

\* value of a sequence of ASCII digits
RECURSIVE DigitsVal(_)
DigitsVal(s) == IF s = <<>> THEN 0 ELSE 10 * DigitsVal(SubSeq(s, 1, Len(s) - 1)) + (s[Len(s)] - 48)

None == [t |-> "none"]

Nil == [tag |-> "nil"]

(***************************************************************************)
(* Module constants, protocol.py lines 10-17.                              *)
(***************************************************************************)
PROTOCOL_VERSION == 1

\* HEADER_FORMAT '!B7s12s1sI': network order, no padding; the field widths
HEADER_FORMAT == <<1, 7, 12, 1, 4>>

RECURSIVE calcsize(_)
calcsize(fmt) == IF fmt = <<>> THEN 0 ELSE fmt[1] + calcsize(Tail(fmt))

HEADER_SIZE == calcsize(HEADER_FORMAT)

\* [a-z0-9]
IsLowerAlnum(c) == (c >= 97 /\ c <= 122) \/ IsDigit(c)

\* [A-Z]
IsUpper(c) == c >= 65 /\ c <= 90

\* $ without re.MULTILINE: the end of the string, or a newline that is the
\* last character of the string
AtDollar(s, n) == Len(s) = n \/ (Len(s) = n + 1 /\ s[n + 1] = 10)

\* re.compile(r'^[a-z0-9]{7}$').match(s)
HOST_ID_PATTERN(s) ==
    /\ Len(s) >= 7
    /\ \A i \in 1..7 : IsLowerAlnum(s[i])
    /\ AtDollar(s, 7)

\* re.compile(r'^[A-Z]{1}$').match(s)
MSG_TYPE_PATTERN(s) ==
    /\ Len(s) >= 1
    /\ IsUpper(s[1])
    /\ AtDollar(s, 1)

\* MessageTypes: STATUS = 'S', REQUEST = 'R', ACK = 'A'
MessageTypes == [STATUS |-> <<83>>, REQUEST |-> <<82>>, ACK |-> <<65>>]

MessageTypeValues == {MessageTypes.STATUS, MessageTypes.REQUEST, MessageTypes.ACK}

(***************************************************************************)
(* Library functions the module calls.                                     *)
(***************************************************************************)
\* bytes.decode('utf-8')
utf8_decode(b) ==
    IF \E i \in 1..Len(b) : b[i] >= 128
    THEN [tag |-> "UnicodeDecodeError"]
    ELSE [tag |-> "ok", s |-> b]

\* characters str.strip() removes (ASCII range)
IsSpace(c) == (c >= 9 /\ c <= 13) \/ (c >= 28 /\ c <= 32)

RECURSIVE lstrip(_)
lstrip(s) == IF s # <<>> /\ IsSpace(s[1]) THEN lstrip(Tail(s)) ELSE s

RECURSIVE rstrip(_)
rstrip(s) == IF s # <<>> /\ IsSpace(s[Len(s)]) THEN rstrip(SubSeq(s, 1, Len(s) - 1)) ELSE s

strip(s) == rstrip(lstrip(s))

\* str.split(' '): cut at every single space, empty pieces kept
RECURSIVE split(_)
split(s) ==
    IF \E i \in 1..Len(s) : s[i] = 32
    THEN LET i == CHOOSE k \in 1..Len(s) : s[k] = 32 /\ \A j \in 1..(k - 1) : s[j] # 32
         IN <<SubSeq(s, 1, i - 1)>> \o split(SubSeq(s, i + 1, Len(s)))
    ELSE <<s>>

\* b' '.join(parts)
RECURSIVE join(_)
join(parts) ==
    IF parts = <<>> THEN <<>>
    ELSE IF Len(parts) = 1 THEN parts[1]
    ELSE parts[1] \o <<32>> \o join(Tail(parts))

\* struct 'Ns': the first n bytes, zero-padded on the right
FitS(b, n) == SubSeq(b, 1, Min(Len(b), n)) \o Repeat(0, n - Len(b))

\* struct '!I': 4 bytes, most significant first
PackU32(n) == <<(n \div 16777216) % 256, (n \div 65536) % 256, (n \div 256) % 256, n % 256>>

UnpackU32(b) == b[1] * 16777216 + b[2] * 65536 + b[3] * 256 + b[4]

\* struct.pack with the length in little-endian order ('<I' for '!I')
struct_pack_little_endian(version, encoded_host_id, formatted_timestamp, encoded_msg_type, payload_size) ==
    <<version>> \o FitS(encoded_host_id, HEADER_FORMAT[2])
                \o FitS(formatted_timestamp, HEADER_FORMAT[3])
                \o FitS(encoded_msg_type, HEADER_FORMAT[4])
                \o <<payload_size % 256, (payload_size \div 256) % 256,
                      (payload_size \div 65536) % 256, (payload_size \div 16777216) % 256>>

\* struct.pack(HEADER_FORMAT, version, host_id, timestamp, msg_type, size)
struct_pack(version, encoded_host_id, formatted_timestamp, encoded_msg_type, payload_size) ==
    <<version>> \o FitS(encoded_host_id, HEADER_FORMAT[2])
                \o FitS(formatted_timestamp, HEADER_FORMAT[3])
                \o FitS(encoded_msg_type, HEADER_FORMAT[4])
                \o PackU32(payload_size)

\* struct.unpack(HEADER_FORMAT, header) of exactly HEADER_SIZE bytes
struct_unpack(h) ==
    [version |-> h[1],
     encoded_host_id |-> SubSeq(h, 2, 8),
     formatted_timestamp |-> SubSeq(h, 9, 20),
     encoded_msg_type |-> SubSeq(h, 21, 21),
     payload_size |-> UnpackU32(SubSeq(h, 22, 25))]

\* datetime.strftime(DATETIME_FORMAT), '%Y%m%d%H%M', for years 1000..9999:
\* the seconds are dropped
strftime(ts) ==
    ZeroPad(ts.Y, 4) \o ZeroPad(ts.m, 2) \o ZeroPad(ts.d, 2) \o ZeroPad(ts.H, 2) \o ZeroPad(ts.M, 2)

IsLeap(y) == (y % 4 = 0 /\ y % 100 # 0) \/ y % 400 = 0

DaysIn(y, m) ==
    IF m = 2 THEN (IF IsLeap(y) THEN 29 ELSE 28)
    ELSE IF m \in {4, 6, 9, 11} THEN 30 ELSE 31

\* datetime.strptime(s, DATETIME_FORMAT) of a 12-character string
strptime(s) ==
    IF Len(s) # 12 \/ ~AllDigits(s) THEN [tag |-> "ValueError"]
    ELSE LET y == DigitsVal(SubSeq(s, 1, 4))
             mo == DigitsVal(SubSeq(s, 5, 6))
             d == DigitsVal(SubSeq(s, 7, 8))
             h == DigitsVal(SubSeq(s, 9, 10))
             mi == DigitsVal(SubSeq(s, 11, 12))
         IN IF y >= 1 /\ mo >= 1 /\ mo <= 12 /\ d >= 1 /\ d <= DaysIn(y, mo) /\ h <= 23 /\ mi <= 59
            THEN [tag |-> "ok", dt |-> [Y |-> y, m |-> mo, d |-> d, H |-> h, M |-> mi, S |-> 0]]
            ELSE [tag |-> "ValueError"]

(***************************************************************************)
(* pack, protocol.py lines 58-75.                                          *)
(***************************************************************************)
pack(host_id, timestamp, msg_type, payload) ==
    IF ~HOST_ID_PATTERN(host_id)
    THEN [tag |-> "ValueError", what |-> "host_id"]
    ELSE IF ~MSG_TYPE_PATTERN(msg_type)
    THEN [tag |-> "ValueError", what |-> "msg_type"]
    ELSE IF msg_type \notin MessageTypeValues
    THEN [tag |-> "UnknownMessageTypeError", msg_type |-> msg_type]
    ELSE LET encoded_host_id == host_id
             formatted_timestamp == strftime(timestamp)
             encoded_msg_type == msg_type
             payload_size == Len(payload)
             header == struct_pack(PROTOCOL_VERSION, encoded_host_id, formatted_timestamp,
                                   encoded_msg_type, payload_size)
         IN [tag |-> "ok", bytes |-> header \o payload]

(***************************************************************************)
(* unpack, protocol.py lines 78-90.                                        *)
(***************************************************************************)
\* lines 82-90: the header fields decoded and the payload sliced
unpack_fields(packet) ==
    LET f == struct_unpack(Slice(packet, 0, HEADER_SIZE))
        host == utf8_decode(f.encoded_host_id)
        tstr == utf8_decode(f.formatted_timestamp)
        ts == IF tstr.tag = "ok" THEN strptime(tstr.s) ELSE tstr
        mt == utf8_decode(f.encoded_msg_type)
    IN IF host.tag # "ok" THEN host
       ELSE IF ts.tag # "ok" THEN ts
       ELSE IF mt.tag # "ok" THEN mt
       ELSE [tag |-> "ok",
             version |-> f.version,
             host_id |-> strip(host.s),
             timestamp |-> ts.dt,
             msg_type |-> strip(mt.s),
             payload_size |-> f.payload_size,
             payload |-> Slice(packet, HEADER_SIZE, HEADER_SIZE + f.payload_size)]

\* unpack raising IncompletePacketError(HEADER_SIZE, len(packet)), the arguments swapped
unpack_swapped_sizes(packet) ==
    IF Len(packet) < HEADER_SIZE
    THEN [tag |-> "IncompletePacketError", packet_size |-> HEADER_SIZE, expected_size |-> Len(packet)]
    ELSE unpack_fields(packet)

unpack(packet) ==
    IF Len(packet) < HEADER_SIZE
    THEN [tag |-> "IncompletePacketError", packet_size |-> Len(packet), expected_size |-> HEADER_SIZE]
    ELSE unpack_fields(packet)

(***************************************************************************)
(* json.dumps(data, separators=(',', ':')) and json.loads, for the JSON    *)
(* texts of the model: one object whose members are "key":scalar, written  *)
(* without whitespace.  A dict is a sequence of <<key, value>> pairs in    *)
(* insertion order.  Number literals carry at most four fraction digits.   *)
(***************************************************************************)
\* string body: '"' and '\' are backslash-escaped, printable ASCII is kept
RECURSIVE json_escape(_)
json_escape(s) ==
    IF s = <<>> THEN <<>>
    ELSE (IF s[1] \in {34, 92} THEN <<92, s[1]>> ELSE <<s[1]>>) \o json_escape(Tail(s))

RECURSIVE StripZeros(_)
StripZeros(s) == IF Len(s) > 1 /\ s[Len(s)] = 48 THEN StripZeros(SubSeq(s, 1, Len(s) - 1)) ELSE s

\* float.__repr__ of x ten-thousandths: shortest decimal, at least one fraction digit
float_repr(x) == DecStr(x \div 10000) \o <<46>> \o StripZeros(ZeroPad(x % 10000, 4))

json_dumps_value(v) ==
    CASE v.t = "str" -> <<34>> \o json_escape(v.s) \o <<34>>
      [] v.t = "int" -> DecStr(v.i)
      [] v.t = "bool" -> (IF v.b THEN <<116, 114, 117, 101>> ELSE <<102, 97, 108, 115, 101>>)
      [] v.t = "float" -> float_repr(v.f)
      [] v.t = "none" -> <<110, 117, 108, 108>>

RECURSIVE json_dumps_members(_)
json_dumps_members(d) ==
    IF d = <<>> THEN <<>>
    ELSE <<34>> \o json_escape(d[1][1]) \o <<34, 58>> \o json_dumps_value(d[1][2])
         \o (IF Len(d) > 1 THEN <<44>> ELSE <<>>) \o json_dumps_members(Tail(d))

json_dumps(d) == <<123>> \o json_dumps_members(d) \o <<125>>

JsonFail == [ok |-> FALSE]

\* the characters of a string literal after its opening quote
RECURSIVE ScanString(_, _, _)
ScanString(b, i, acc) ==
    IF i > Len(b) THEN JsonFail
    ELSE IF b[i] = 34 THEN [ok |-> TRUE, v |-> [t |-> "str", s |-> acc], next |-> i + 1]
    ELSE IF b[i] = 92
         THEN IF i + 1 <= Len(b) /\ b[i + 1] \in {34, 92}
              THEN ScanString(b, i + 2, Append(acc, b[i + 1]))
              ELSE JsonFail
    ELSE IF b[i] < 32 THEN JsonFail
    ELSE ScanString(b, i + 1, Append(acc, b[i]))

\* index of the first non-digit at or after i
RECURSIVE SkipDigits(_, _)
SkipDigits(b, i) == IF i <= Len(b) /\ IsDigit(b[i]) THEN SkipDigits(b, i + 1) ELSE i

ScanNumber(b, i) ==
    LET e == IF b[i] = 48 THEN i + 1 ELSE SkipDigits(b, i)
        ip == DigitsVal(SubSeq(b, i, e - 1))
        fe == SkipDigits(b, e + 1)
    IN IF e <= Len(b) /\ b[e] = 46 /\ fe > e + 1
       THEN LET frac == SubSeq(b, e + 1, Min(fe - 1, e + 4))
            IN [ok |-> TRUE,
                v |-> [t |-> "float", f |-> ip * 10000 + DigitsVal(frac \o Repeat(48, 4 - Len(frac)))],
                next |-> fe]
       ELSE [ok |-> TRUE, v |-> [t |-> "int", i |-> ip], next |-> e]

ScanLiteral(b, i, word, val) ==
    IF SubSeq(b, i, Min(Len(b), i + Len(word) - 1)) = word
    THEN [ok |-> TRUE, v |-> val, next |-> i + Len(word)]
    ELSE JsonFail

ScanValue(b, i) ==
    IF i > Len(b) THEN JsonFail
    ELSE IF b[i] = 34 THEN ScanString(b, i + 1, <<>>)
    ELSE IF IsDigit(b[i]) THEN ScanNumber(b, i)
    ELSE IF b[i] = 116 THEN ScanLiteral(b, i, <<116, 114, 117, 101>>, [t |-> "bool", b |-> TRUE])
    ELSE IF b[i] = 102 THEN ScanLiteral(b, i, <<102, 97, 108, 115, 101>>, [t |-> "bool", b |-> FALSE])
    ELSE IF b[i] = 110 THEN ScanLiteral(b, i, <<110, 117, 108, 108>>, None)
    ELSE JsonFail

\* dict[k] = v: a key already present keeps its place and takes the new value
DictSet(d, k, v) ==
    IF \E j \in 1..Len(d) : d[j][1] = k
    THEN [j \in 1..Len(d) |-> IF d[j][1] = k THEN <<k, v>> ELSE d[j]]
    ELSE Append(d, <<k, v>>)

\* the members of an object from position i on, up to the closing brace
RECURSIVE ScanMembers(_, _, _)
ScanMembers(b, i, acc) ==
    IF i > Len(b) \/ b[i] # 34 THEN JsonFail
    ELSE LET k == ScanString(b, i + 1, <<>>)
         IN IF ~k.ok \/ k.next > Len(b) \/ b[k.next] # 58 THEN JsonFail
            ELSE LET v == ScanValue(b, k.next + 1)
                 IN IF ~v.ok \/ v.next > Len(b) THEN JsonFail
                    ELSE IF b[v.next] = 44 THEN ScanMembers(b, v.next + 1, DictSet(acc, k.v.s, v.v))
                    ELSE IF b[v.next] = 125 /\ v.next = Len(b)
                         THEN [ok |-> TRUE, v |-> DictSet(acc, k.v.s, v.v)]
                    ELSE JsonFail

json_loads(b) ==
    IF Len(b) < 2 \/ b[1] # 123 THEN JsonFail
    ELSE IF b[2] = 125 THEN (IF Len(b) = 2 THEN [ok |-> TRUE, v |-> <<>>] ELSE JsonFail)
    ELSE ScanMembers(b, 2, <<>>)

(***************************************************************************)
(* Status, protocol.py lines 93-174.                                       *)
(***************************************************************************)
\* fields(Status), in declaration order
StatusFields ==
    <<"host_name", "ram_total", "ram_usage", "cpu_total",
      "cpu_usage", "cpu_temperature", "disk_usage", "disk_total">>

FieldNames == {StatusFields[i] : i \in 1..Len(StatusFields)}

\* the declared type of each field, Optional[...] removed
field_types ==
    [host_name |-> "str", ram_total |-> "float", ram_usage |-> "float", cpu_total |-> "int",
     cpu_usage |-> "float", cpu_temperature |-> "float", disk_usage |-> "float", disk_total |-> "float"]

\* Status.FIELD_ALIAS
FIELD_ALIAS ==
    [host_name |-> <<72, 78, 77>>,        \* HNM
     ram_total |-> <<82, 84, 84>>,        \* RTT
     ram_usage |-> <<82, 85, 71>>,        \* RUG
     cpu_total |-> <<67, 84, 84>>,        \* CTT
     cpu_usage |-> <<67, 85, 71>>,        \* CUG
     cpu_temperature |-> <<67, 84, 80>>,  \* CTP
     disk_total |-> <<68, 84, 84>>,       \* DTT
     disk_usage |-> <<68, 85, 71>>]       \* DUG

\* {value: key for key, value in FIELD_ALIAS.items()}.get(alias)
alias_to_field(alias) ==
    IF \E n \in FieldNames : FIELD_ALIAS[n] = alias
    THEN CHOOSE n \in FieldNames : FIELD_ALIAS[n] = alias
    ELSE "None"

\* isinstance(value, expected_type); bool is a subclass of int
isinstance(v, type) ==
    \/ v.t = type
    \/ type = "int" /\ v.t = "bool"

\* the first field, from position i on, whose value is of the wrong type
RECURSIVE post_init_from(_, _)
post_init_from(kw, i) ==
    IF i > Len(StatusFields) THEN kw
    ELSE LET name == StatusFields[i]
         IN IF kw[name].t # "none" /\ ~isinstance(kw[name], field_types[name])
            THEN [tag |-> "TypeError", field |-> name]
            ELSE post_init_from(kw, i + 1)

\* Status(**kw) with __post_init__: kw gives every field, None when left out
Status(kw) == post_init_from(kw, 1)

IsStatus(o) == DOMAIN o = FieldNames

\* round(x, 3) for x ten-thousandths that is not half way between two thousandths
round3(x) == ((x + 5) \div 10) * 10

\* the fields that are set, converted, in declaration order
RECURSIVE serialize_data(_, _)
serialize_data(self, i) ==
    IF i > Len(StatusFields) THEN <<>>
    ELSE LET field_name == StatusFields[i]
             field_value == self[field_name]
             converted == IF field_types[field_name] = "float" /\ field_value.t = "float"
                          THEN [t |-> "float", f |-> round3(field_value.f)]
                          ELSE field_value
         IN (IF field_value.t # "none" THEN <<<<FIELD_ALIAS[field_name], converted>>>> ELSE <<>>)
            \o serialize_data(self, i + 1)

\* serialize without the round(field_value, 3) step
RECURSIVE serialize_data_unrounded(_, _)
serialize_data_unrounded(self, i) ==
    IF i > Len(StatusFields) THEN <<>>
    ELSE LET field_name == StatusFields[i]
         IN (IF self[field_name].t # "none"
             THEN <<<<FIELD_ALIAS[field_name], self[field_name]>>>> ELSE <<>>)
            \o serialize_data_unrounded(self, i + 1)

Status_serialize_unrounded(self) == json_dumps(serialize_data_unrounded(self, 1))

Status_serialize(self) == json_dumps(serialize_data(self, 1))

\* the loop over data.items(): kwargs so far, or the first unknown alias
RECURSIVE deserialize_items(_, _, _)
deserialize_items(data, i, kwargs) ==
    IF i > Len(data) THEN [tag |-> "ok", kwargs |-> kwargs]
    ELSE LET field_alias == data[i][1]
             field_name == alias_to_field(field_alias)
         IN IF field_name = "None"
            THEN [tag |-> "UnknownAliasError", alias |-> field_alias]
            ELSE deserialize_items(data, i + 1, [kwargs EXCEPT ![field_name] = data[i][2]])

Status_deserialize(serialized_status) ==
    LET text == utf8_decode(serialized_status)
    IN IF text.tag # "ok" THEN text
       ELSE LET data == json_loads(text.s)
            IN IF ~data.ok THEN [tag |-> "JSONDecodeError"]
               ELSE LET r == deserialize_items(data.v, 1, [n \in FieldNames |-> None])
                    IN IF r.tag # "ok" THEN r ELSE Status(r.kwargs)

(***************************************************************************)
(* Request, protocol.py lines 177-205.                                     *)
(***************************************************************************)
\* Request(requested_fields) with __post_init__
Request(requested_fields) ==
    IF \E i \in 1..Len(requested_fields) : requested_fields[i] \notin FieldNames
    THEN LET i == CHOOSE k \in 1..Len(requested_fields) :
                      /\ requested_fields[k] \notin FieldNames
                      /\ \A j \in 1..(k - 1) : requested_fields[j] \in FieldNames
         IN [tag |-> "UnknownFieldNameError", field_name |-> requested_fields[i]]
    ELSE [requested_fields |-> requested_fields]

IsRequest(o) == DOMAIN o = {"requested_fields"}

Request_serialize(self) ==
    join([i \in 1..Len(self.requested_fields) |-> FIELD_ALIAS[self.requested_fields[i]]])

\* the loop over the tokens with an unknown alias skipped instead of raised
RECURSIVE deserialize_tokens_lenient(_, _, _)
deserialize_tokens_lenient(tokens, i, request_fields) ==
    IF i > Len(tokens) THEN [tag |-> "ok", request_fields |-> request_fields]
    ELSE LET field_name == alias_to_field(tokens[i])
         IN deserialize_tokens_lenient(tokens, i + 1,
                IF field_name = "None" THEN request_fields ELSE Append(request_fields, field_name))

\* the loop over the tokens: the field names so far, or the first unknown alias
RECURSIVE deserialize_tokens(_, _, _)
deserialize_tokens(tokens, i, request_fields) ==
    IF i > Len(tokens) THEN [tag |-> "ok", request_fields |-> request_fields]
    ELSE LET field_name == alias_to_field(tokens[i])
         IN IF field_name = "None"
            THEN [tag |-> "UnknownAliasError", alias |-> tokens[i]]
            ELSE deserialize_tokens(tokens, i + 1, Append(request_fields, field_name))

\* a list without its repeated elements, first occurrences kept
RECURSIVE Dedup(_)
Dedup(q) ==
    IF q = <<>> THEN <<>>
    ELSE LET rest == Dedup(SubSeq(q, 1, Len(q) - 1))
         IN IF \E j \in 1..(Len(q) - 1) : q[j] = q[Len(q)] THEN rest ELSE Append(rest, q[Len(q)])

\* deserialize collecting the names without repetition
Request_deserialize_dedup(serialized_request) ==
    LET text == utf8_decode(serialized_request)
    IN IF text.tag # "ok" THEN text
       ELSE LET r == deserialize_tokens(split(strip(text.s)), 1, <<>>)
            IN IF r.tag # "ok" THEN r ELSE Request(Dedup(r.request_fields))

Request_deserialize(serialized_request) ==
    LET text == utf8_decode(serialized_request)
    IN IF text.tag # "ok" THEN text
       ELSE LET r == deserialize_tokens(split(strip(text.s)), 1, <<>>)
            IN IF r.tag # "ok" THEN r ELSE Request(r.request_fields)

(***************************************************************************)
(* Packet constructors and the dispatcher, protocol.py lines 208-231.      *)
(***************************************************************************)
create_acknowledge_packet(host_id, timestamp) ==
    pack(host_id, timestamp, MessageTypes.ACK, <<>>)

create_request_packet(host_id, timestamp, request) ==
    pack(host_id, timestamp, MessageTypes.REQUEST, Request_serialize(request))

create_status_packet(host_id, timestamp, status) ==
    pack(host_id, timestamp, MessageTypes.STATUS, Status_serialize(status))

AckResult == [tag |-> "None"]

\* parse_packet without the default case: any other type is taken for an ACK
parse_packet_no_default(packet) ==
    LET u == unpack(packet)
    IN IF u.tag # "ok" THEN u
       ELSE IF u.msg_type = MessageTypes.STATUS THEN Status_deserialize(u.payload)
       ELSE IF u.msg_type = MessageTypes.REQUEST THEN Request_deserialize(u.payload)
       ELSE AckResult

parse_packet(packet) ==
    LET u == unpack(packet)
    IN IF u.tag # "ok" THEN u
       ELSE IF u.msg_type = MessageTypes.STATUS THEN Status_deserialize(u.payload)
       ELSE IF u.msg_type = MessageTypes.REQUEST THEN Request_deserialize(u.payload)
       ELSE IF u.msg_type = MessageTypes.ACK THEN AckResult
       ELSE [tag |-> "UnknownMessageTypeError", msg_type |-> u.msg_type]


(***************************************************************************)
(* Inputs of the model.                                                    *)
(***************************************************************************)
\* host_id arguments: 'abc1234', 'abc1234\n', 'AB12345', 'ab123', 'abc1234x'
HostIds ==
    {<<97, 98, 99, 49, 50, 51, 52>>,
     <<97, 98, 99, 49, 50, 51, 52, 10>>,
     <<65, 66, 49, 50, 51, 52, 53>>,
     <<97, 98, 49, 50, 51>>,
     <<97, 98, 99, 49, 50, 51, 52, 120>>}

\* timestamp arguments
Timestamps ==
    {[Y |-> 2024, m |-> 1, d |-> 2, H |-> 3, M |-> 4, S |-> 5],
     [Y |-> 1999, m |-> 12, d |-> 31, H |-> 23, M |-> 59, S |-> 0]}

\* msg_type arguments: 'S', 'R', 'A', 'X', 's', 'S\n', 'SS', ''
MsgTypeInputs ==
    {<<83>>, <<82>>, <<65>>, <<88>>, <<115>>, <<83, 10>>, <<83, 83>>, <<>>}

PyStr(s) == [t |-> "str", s |-> s]

PyInt(i) == [t |-> "int", i |-> i]

PyBool(b) == [t |-> "bool", b |-> b]

PyFloat(f) == [t |-> "float", f |-> f]

\* values tried for each field of a Status; ram_total includes an int, which
\* construction rejects.  No float is half way between two thousandths.
FieldInputs ==
    [host_name |-> <<None, PyStr(<<104, 34>>)>>,
     ram_total |-> <<None, PyFloat(85000), PyFloat(160294), PyFloat(160296), PyInt(16)>>,
     ram_usage |-> <<None, PyFloat(85000)>>,
     cpu_total |-> <<None, PyInt(8), PyBool(TRUE)>>,
     cpu_usage |-> <<None, PyFloat(453000)>>,
     cpu_temperature |-> <<None, PyFloat(652001)>>,
     disk_usage |-> <<None, PyFloat(1205004)>>,
     disk_total |-> <<None, PyFloat(5000000)>>]

\* names tried in a requested_fields list: the eight fields and 'uptime'
NameInputs == FieldNames \cup {"uptime"}

SeqsUpTo(S, n) == UNION {[1..k -> S] : k \in 0..n}

\* byte strings handed directly to a decoder or to pack
RawPayloads ==
    {<<123, 34, 90, 90, 90, 34, 58, 49, 125>>,                    \* {"ZZZ":1}
     <<123, 34, 82, 84, 84, 34, 58, 49, 46, 53, 44, 34, 90, 90, 90, 34, 58, 50, 125>>,
                                                                  \* {"RTT":1.5,"ZZZ":2}
     <<123, 34, 82, 84, 84, 34, 58, 49, 125>>,                    \* {"RTT":1}
     <<123, 34, 82, 84, 84, 34, 58, 49, 46, 48, 44, 34, 82, 84, 84, 34, 58, 50, 46, 53, 125>>,
                                                                  \* {"RTT":1.0,"RTT":2.5}
     <<123, 34, 67, 84, 84, 34, 58, 110, 117, 108, 108, 125>>,    \* {"CTT":null}
     <<106, 117, 110, 107>>,                                      \* junk
     <<82, 85, 71, 32, 67, 85, 71>>,                              \* RUG CUG
     <<82, 85, 71, 10>>,                                          \* RUG\n
     <<82, 85, 71, 32>>,                                          \* 'RUG '
     <<32, 82, 85, 71>>,                                          \* ' RUG'
     <<82, 85, 71, 32, 32, 67, 85, 71>>,                          \* 'RUG  CUG'
     <<90, 90, 90>>,                                              \* ZZZ
     <<82, 85, 71, 32, 90, 90, 90>>,                              \* RUG ZZZ
     <<>>,
     <<255>>}

\* header fields of the buffers a transport may hand over
RawHostIds == {<<97, 98, 99, 49, 50, 51, 52>>, <<97, 98, 99, 49, 50, 10, 32>>}

RawTimestamps ==
    {<<50, 48, 50, 52, 48, 49, 48, 50, 48, 51, 48, 52>>,          \* 202401020304
     <<50, 48, 50, 52, 49, 51, 48, 49, 48, 51, 48, 52>>,          \* 202413010304
     <<50, 48, 50, 52, 48, 50, 51, 48, 48, 51, 48, 52>>}          \* 202402300304

RawMsgTypes == {<<83>>, <<82>>, <<65>>, <<88>>, <<32>>, <<255>>}

RawBodies ==
    {<<>>,
     <<106, 117, 110, 107>>,
     <<82, 85, 71, 32, 67, 85, 71>>,
     <<123, 34, 90, 90, 90, 34, 58, 49, 125>>}

\* declared payload length minus the actual one
RawSlack == {0, 3}

RawFrames ==
    {struct_pack(PROTOCOL_VERSION, h, ts, mt, Len(b) + k) \o b :
        h \in RawHostIds, ts \in RawTimestamps, mt \in RawMsgTypes, b \in RawBodies, k \in RawSlack}

\* buffers shorter than a header, and one exactly as long
ShortBuffers ==
    {SubSeq(struct_pack(PROTOCOL_VERSION, h, ts, <<65>>, 0), 1, n) :
        h \in RawHostIds, ts \in RawTimestamps, n \in 0..HEADER_SIZE}

(***************************************************************************)
(* State.                                                                  *)
(***************************************************************************)
VARIABLES
    st,       \* how far the message has come
    obj,      \* the Status or Request built by the sender, or the exception
    payload,  \* the payload bytes given to pack or to a decoder
    args,     \* host_id, timestamp and msg_type given to pack
    frame,    \* what pack returned
    wire,     \* the buffer given to unpack or parse_packet
    result    \* what the last decoder, unpack or parse_packet returned

vars == <<st, obj, payload, args, frame, wire, result>>

HasTag(o) == "tag" \in DOMAIN o

IsNil(o) == HasTag(o) /\ o.tag = "nil"

Init ==
    /\ st = "idle"
    /\ obj = Nil
    /\ payload = <<>>
    /\ args = Nil
    /\ frame = Nil
    /\ wire = <<>>
    /\ result = Nil

(***************************************************************************)
(* Sender side.                                                            *)
(***************************************************************************)
Built(o) == IF HasTag(o) THEN "rejected" ELSE "built"

NewStatus ==
    /\ st = "idle"
    /\ \E a \in DOMAIN FieldInputs.host_name, b \in DOMAIN FieldInputs.ram_total,
          c \in DOMAIN FieldInputs.ram_usage, d \in DOMAIN FieldInputs.cpu_total,
          e \in DOMAIN FieldInputs.cpu_usage, f \in DOMAIN FieldInputs.cpu_temperature,
          g \in DOMAIN FieldInputs.disk_usage, h \in DOMAIN FieldInputs.disk_total :
            LET kw == [host_name |-> FieldInputs.host_name[a],
                       ram_total |-> FieldInputs.ram_total[b],
                       ram_usage |-> FieldInputs.ram_usage[c],
                       cpu_total |-> FieldInputs.cpu_total[d],
                       cpu_usage |-> FieldInputs.cpu_usage[e],
                       cpu_temperature |-> FieldInputs.cpu_temperature[f],
                       disk_usage |-> FieldInputs.disk_usage[g],
                       disk_total |-> FieldInputs.disk_total[h]]
            IN /\ obj' = Status(kw)
               /\ st' = Built(Status(kw))
    /\ UNCHANGED <<payload, args, frame, wire, result>>

NewRequest ==
    /\ st = "idle"
    /\ \E names \in SeqsUpTo(NameInputs, MaxFields) :
         /\ obj' = Request(names)
         /\ st' = Built(Request(names))
    /\ UNCHANGED <<payload, args, frame, wire, result>>

SerializeStatus ==
    /\ st = "built"
    /\ IsStatus(obj)
    /\ payload' = Status_serialize(obj)
    /\ st' = "serialized"
    /\ UNCHANGED <<obj, args, frame, wire, result>>

SerializeRequest ==
    /\ st = "built"
    /\ IsRequest(obj)
    /\ payload' = Request_serialize(obj)
    /\ st' = "serialized"
    /\ UNCHANGED <<obj, args, frame, wire, result>>

\* received payload bytes handed straight to a decoder or to pack
RawPayload ==
    /\ st = "idle"
    /\ \E p \in RawPayloads : payload' = p
    /\ st' = "serialized"
    /\ UNCHANGED <<obj, args, frame, wire, result>>

DeserializeStatus ==
    /\ st = "serialized"
    /\ IsStatus(obj) \/ IsNil(obj)
    /\ result' = Status_deserialize(payload)
    /\ st' = "status_decoded"
    /\ UNCHANGED <<obj, payload, args, frame, wire>>

DeserializeRequest ==
    /\ st = "serialized"
    /\ IsRequest(obj) \/ IsNil(obj)
    /\ result' = Request_deserialize(payload)
    /\ st' = "request_decoded"
    /\ UNCHANGED <<obj, payload, args, frame, wire>>

CreateStatusPacket ==
    /\ st = "built"
    /\ IsStatus(obj)
    /\ \E h \in HostIds, ts \in Timestamps :
         /\ args' = [host_id |-> h, timestamp |-> ts, msg_type |-> MessageTypes.STATUS]
         /\ frame' = create_status_packet(h, ts, obj)
    /\ payload' = Status_serialize(obj)
    /\ st' = "framed"
    /\ UNCHANGED <<obj, wire, result>>

CreateRequestPacket ==
    /\ st = "built"
    /\ IsRequest(obj)
    /\ \E h \in HostIds, ts \in Timestamps :
         /\ args' = [host_id |-> h, timestamp |-> ts, msg_type |-> MessageTypes.REQUEST]
         /\ frame' = create_request_packet(h, ts, obj)
    /\ payload' = Request_serialize(obj)
    /\ st' = "framed"
    /\ UNCHANGED <<obj, wire, result>>

CreateAcknowledgePacket ==
    /\ st = "idle"
    /\ \E h \in HostIds, ts \in Timestamps :
         /\ args' = [host_id |-> h, timestamp |-> ts, msg_type |-> MessageTypes.ACK]
         /\ frame' = create_acknowledge_packet(h, ts)
    /\ st' = "ack_framed"
    /\ UNCHANGED <<obj, payload, wire, result>>

\* pack called directly on payload bytes
Pack ==
    /\ st = "serialized"
    /\ IsNil(obj)
    /\ \E h \in HostIds, ts \in Timestamps, mt \in MsgTypeInputs :
         /\ args' = [host_id |-> h, timestamp |-> ts, msg_type |-> mt]
         /\ frame' = pack(h, ts, mt, payload)
    /\ st' = "framed"
    /\ UNCHANGED <<obj, payload, wire, result>>

(***************************************************************************)
(* Transport (outside protocol.py): it hands a buffer to the receiver.     *)
(***************************************************************************)
Framed == st \in {"framed", "ack_framed"} /\ frame.tag = "ok"

Deliver ==
    /\ Framed
    /\ wire' = frame.bytes
    /\ st' = "received"
    /\ UNCHANGED <<obj, payload, args, frame, result>>

\* the buffer ends before the frame does
DeliverShort ==
    /\ Framed
    /\ \E k \in 1..MaxDrop :
         /\ k <= Len(frame.bytes)
         /\ wire' = SubSeq(frame.bytes, 1, Len(frame.bytes) - k)
    /\ st' = "received"
    /\ UNCHANGED <<obj, payload, args, frame, result>>

\* a buffer that no pack of the model produced
Inject ==
    /\ st = "idle"
    /\ \E b \in RawFrames \cup ShortBuffers : wire' = b
    /\ st' = "received"
    /\ UNCHANGED <<obj, payload, args, frame, result>>

(***************************************************************************)
(* Receiver side.                                                          *)
(***************************************************************************)
Unpack ==
    /\ st = "received"
    /\ result' = unpack(wire)
    /\ st' = "unpacked"
    /\ UNCHANGED <<obj, payload, args, frame, wire>>

ParsePacket ==
    /\ st = "received"
    /\ result' = parse_packet(wire)
    /\ st' = "parsed"
    /\ UNCHANGED <<obj, payload, args, frame, wire>>

Next ==
    \/ NewStatus
    \/ NewRequest
    \/ SerializeStatus
    \/ SerializeRequest
    \/ RawPayload
    \/ DeserializeStatus
    \/ DeserializeRequest
    \/ CreateStatusPacket
    \/ CreateRequestPacket
    \/ CreateAcknowledgePacket
    \/ Pack
    \/ Deliver
    \/ DeliverShort
    \/ Inject
    \/ Unpack
    \/ ParsePacket

Spec == Init /\ [][Next]_vars


(***************************************************************************)
(* Properties.                                                             *)
(***************************************************************************)
Aliases == {FIELD_ALIAS[n] : n \in FieldNames}

\* exactly seven characters, each in [a-z0-9]
SevenLowerAlnum(h) == Len(h) = 7 /\ \A i \in 1..7 : IsLowerAlnum(h[i])

\* the intact frame of a successful pack has been unpacked
UnpackedIntact ==
    /\ st = "unpacked"
    /\ frame.tag = "ok"
    /\ wire = frame.bytes

\* C1: unpack of a frame made by pack succeeds and gives back version 1, the
\* msg_type, len(payload), the host_id and the payload that pack was given.
C1_FramingRoundTrip ==
    UnpackedIntact =>
        /\ result.tag = "ok"
        /\ result.version = 1
        /\ result.msg_type = args.msg_type
        /\ result.payload_size = Len(payload)
        /\ result.host_id = args.host_id
        /\ result.payload = payload

C3_PayloadLengthMatches ==
    (st = "unpacked" /\ result.tag = "ok") => Len(result.payload) = result.payload_size

\* C4: pack accepts a host_id exactly when it is seven characters of
\* [a-z0-9]; any other host_id fails with the invalid-host-id error.
C4_HostIdAccepted ==
    (st \in {"framed", "ack_framed"} /\ args.msg_type \in MessageTypeValues) =>
        IF SevenLowerAlnum(args.host_id)
        THEN frame.tag = "ok"
        ELSE frame = [tag |-> "ValueError", what |-> "host_id"]

\* C5: deserialize(serialize(s)) is a Status with every set float field of s
\* rounded to three decimals, every other set field unchanged and every
\* unset field unset.
C5_StatusRoundTrip ==
    (st = "status_decoded" /\ IsStatus(obj)) =>
        /\ IsStatus(result)
        /\ \A n \in FieldNames :
             IF obj[n].t = "float"
             THEN /\ result[n].t = "float"
                  /\ result[n].f % 10 = 0
                  /\ result[n].f - obj[n].f \in -4..4
             ELSE result[n] = obj[n]

\* a Status with a float that rounding changes, a text field and unset fields
C5_Witness ==
    /\ st = "status_decoded"
    /\ IsStatus(obj)
    /\ IsStatus(result)
    /\ obj.ram_total.t = "float"
    /\ obj.ram_total.f % 10 # 0
    /\ obj.host_name.t = "str"
    /\ obj.cpu_total.t = "bool"
    /\ obj.disk_total.t = "none"

\* C6: for a non-empty requested_fields list, serialize emits the aliases in
\* order with one space between neighbours, and deserialize(serialize(r))
\* equals r (same names, order and multiplicity).
C6_RequestRoundTrip ==
    (st = "request_decoded" /\ IsRequest(obj) /\ Len(obj.requested_fields) >= 1) =>
        LET names == obj.requested_fields
        IN /\ result = obj
           /\ Len(payload) = 4 * Len(names) - 1
           /\ \A i \in 1..Len(names) :
                /\ SubSeq(payload, 4 * i - 3, 4 * i - 1) = FIELD_ALIAS[names[i]]
                /\ i < Len(names) => payload[4 * i] = 32

\* a Request naming the same field twice went through the round trip
C6_Witness ==
    /\ st = "request_decoded"
    /\ IsRequest(obj)
    /\ Len(obj.requested_fields) = 2
    /\ obj.requested_fields[1] = obj.requested_fields[2]
    /\ IsRequest(result)

\* the keys of a payload that is a JSON object
ObjectKeys == LET d == json_loads(payload) IN [j \in 1..Len(d.v) |-> d.v[j][1]]

\* the first element of q that is not an alias
FirstUnknown(q) ==
    q[CHOOSE i \in 1..Len(q) : q[i] \notin Aliases /\ \A j \in 1..(i - 1) : q[j] \in Aliases]

HasUnknown(q) == \E i \in 1..Len(q) : q[i] \notin Aliases

StatusDecodedObject ==
    /\ st = "status_decoded"
    /\ utf8_decode(payload).tag = "ok"
    /\ json_loads(payload).ok

RequestDecodedText ==
    /\ st = "request_decoded"
    /\ utf8_decode(payload).tag = "ok"

StrictStatusKeys ==
    (StatusDecodedObject /\ HasUnknown(ObjectKeys)) =>
        result = [tag |-> "UnknownAliasError", alias |-> FirstUnknown(ObjectKeys)]

C8_Dispatch ==
    st = "parsed" =>
        LET u == unpack(wire)
        IN IF u.tag # "ok" THEN result = u
           ELSE IF wire[21] = 83 THEN result = Status_deserialize(u.payload)
           ELSE IF wire[21] = 82 THEN result = Request_deserialize(u.payload)
           ELSE IF wire[21] = 65 THEN result = AckResult
           ELSE HasTag(result) /\ result.tag = "UnknownMessageTypeError"

\* a frame of an unknown message type was parsed
C8_Witness ==
    /\ st = "parsed"
    /\ unpack(wire).tag = "ok"
    /\ wire[21] = 88
    /\ result.tag = "UnknownMessageTypeError"

\* C9: an ACK frame with a non-empty payload is refused with
\* PayloadMismatch, and create_acknowledge_packet declares payload length 0.
C9_AckPayloadEmpty ==
    /\ (st = "parsed" /\ unpack(wire).tag = "ok" /\ wire[21] = 65 /\ unpack(wire).payload # <<>>) =>
           (HasTag(result) /\ result.tag = "PayloadMismatch")
    /\ (st = "ack_framed" /\ frame.tag = "ok") =>
           /\ Len(frame.bytes) = HEADER_SIZE
           /\ SubSeq(frame.bytes, 22, 25) = <<0, 0, 0, 0>>

\* C10: unpack of a buffer shorter than the header fails with
\* IncompletePacket carrying the buffer's length and the header size, and
\* returns nothing else.
C10_IncompletePacket ==
    (st = "unpacked" /\ Len(wire) < HEADER_SIZE) =>
        result = [tag |-> "IncompletePacketError",
                  packet_size |-> Len(wire),
                  expected_size |-> HEADER_SIZE]

\* a buffer of three bytes was given to unpack
C10_Witness ==
    /\ st = "unpacked"
    /\ Len(wire) = 3
    /\ result.tag = "IncompletePacketError"
    /\ result.packet_size = 3


====
